---- MODULE Spec2Model ----
(***************************************************************************)
(* The gm-service REST backend (src/gm/main) over its relational store.    *)
(*                                                                         *)
(* The store is the PostgreSQL database named by config.py; it outlives    *)
(* the process, and create_app (app.py) only creates the tables that are   *)
(* missing.  The three tables are modelled as sets of rows, so that the    *)
(* primary-key and foreign-key constraints declared in models/model.py     *)
(* are checks made by the statements that write, not facts of the          *)
(* representation.                                                         *)
(*                                                                         *)
(* The server runs threaded (app.py: app.run(threaded=True)) and           *)
(* db.session is a session scoped to the request: a handler that writes    *)
(* is two steps, Begin (the queries and the deserialisation it makes       *)
(* before db.session.commit()) and Commit (the flush and the commit, one   *)
(* database transaction, all or nothing).  Requests of other threads run   *)
(* between the two.  A handler that returns before its commit is one step. *)
(*                                                                         *)
(* resp and deleted record what the clients were answered; the handlers    *)
(* never read them.                                                        *)
(***************************************************************************)
EXTENDS Integers, FiniteSets, Sequences, TLC

\* Requests started in one behaviour.
MaxRequests == 2

\* Sample values of the keys: metric ids (metric_id_seq integers), config
\* names, run ids (UUID tokens) and the request threads.
MetricIds == {1, 2}
ConfigNames == {"a", "b"}
RunIds == {"r1", "r2"}
Threads == {"t1", "t2"}

\* models/model.py: the enums' member names.
Frequency == {"DAILY", "WEEKLY", "MONTHLY", "QUARTERLY"}
ConfigType == {"BOOLEAN", "STRING", "FLOAT", "LIST_STRING", "LIST_FLOAT", "INTEGER"}
MetricStatus == {"OK", "FAILED", "WARNING", "UNDETERMINED"}

\* models/model.py: the polymorphic identities of Metric and its subclasses.
PolymorphicIdentities == {"metric", "quant_model", "ml_model_metric"}

\* models/model.py: class ThresholdType.  A name is the sequence of its
\* characters, so that str.upper, startswith and endswith are computed on it.
\* The members in the order of their definition.
ThresholdTypeMembers ==
    <<<<"G", "T", "E">>,
      <<"G", "T">>,
      <<"L", "T", "E">>,
      <<"L", "T">>,
      <<"N", "E">>,
      <<"E", "Q">>,
      <<"I", "N">>,
      <<"N", "O", "T", "_", "I", "N">>,
      <<"R", "A", "N", "G", "E">>,
      <<"R", "A", "N", "G", "E", "_", "L", "O">>,
      <<"R", "A", "N", "G", "E", "_", "R", "O">>,
      <<"R", "A", "N", "G", "E", "_", "L", "R", "O">>>>

ThresholdType == {ThresholdTypeMembers[i] : i \in DOMAIN ThresholdTypeMembers}

\* str.upper and str.lower, character by character.
LowerCase == <<"a", "b", "c", "d", "e", "f", "g", "h", "i", "j", "k", "l", "m">> \o
             <<"n", "o", "p", "q", "r", "s", "t", "u", "v", "w", "x", "y", "z">>
UpperCase == <<"A", "B", "C", "D", "E", "F", "G", "H", "I", "J", "K", "L", "M">> \o
             <<"N", "O", "P", "Q", "R", "S", "T", "U", "V", "W", "X", "Y", "Z">>

upper(str) ==
    [i \in DOMAIN str |->
        IF \E k \in DOMAIN LowerCase : LowerCase[k] = str[i]
        THEN UpperCase[CHOOSE k \in DOMAIN LowerCase : LowerCase[k] = str[i]]
        ELSE str[i]]

lower(str) ==
    [i \in DOMAIN str |->
        IF \E k \in DOMAIN UpperCase : UpperCase[k] = str[i]
        THEN LowerCase[CHOOSE k \in DOMAIN UpperCase : UpperCase[k] = str[i]]
        ELSE str[i]]

\* str.capitalize: the first character upper, the others lower.
capitalize(str) ==
    IF str = <<>> THEN str ELSE upper(<<Head(str)>>) \o lower(Tail(str))

\* str.startswith and str.endswith.
startswith(str, prefix) ==
    /\ Len(str) >= Len(prefix)
    /\ SubSeq(str, 1, Len(prefix)) = prefix

endswith(str, suffix) ==
    /\ Len(str) >= Len(suffix)
    /\ SubSeq(str, Len(str) - Len(suffix) + 1, Len(str)) = suffix

\* An is_range that looks for the prefix of the open ranges only.
is_range_open_only(member) == startswith(member, <<"R", "A", "N", "G", "E", "_">>)

\* ThresholdType.is_range and is_set.
is_range(member) == startswith(member, <<"R", "A", "N", "G", "E">>)

is_set(member) == endswith(member, <<"I", "N">>)

\* A from_name that compares the name as given.
ThresholdType_from_name_exact(name) ==
    IF name \in ThresholdType
    THEN [ok |-> TRUE, member |-> name]
    ELSE [ok |-> FALSE, error |-> "ValueError", text |-> "Invalid name %s",
          args |-> <<name>>, listed |-> {}]

\* ThresholdType.from_name: the member whose name is name.upper(), or
\* ValueError('Invalid name %s' % name).
ThresholdType_from_name(name) ==
    IF \E i \in DOMAIN ThresholdTypeMembers : ThresholdTypeMembers[i] = upper(name)
    THEN [ok |-> TRUE, member |-> upper(name)]
    ELSE [ok |-> FALSE, error |-> "ValueError", text |-> "Invalid name %s",
          args |-> <<name>>, listed |-> {}]

\* ThresholdType.values: the names of all members.
ThresholdType_values ==
    [i \in DOMAIN ThresholdTypeMembers |-> ThresholdTypeMembers[i]]

\* The names the enum's functions are called with: every member's name as
\* defined, in lower case and capitalized, and strings that name no member.
EnumNames ==
    ThresholdType \cup {lower(n) : n \in ThresholdType}
        \cup {capitalize(n) : n \in ThresholdType}
        \cup {<<>>, <<"R", "A", "N", "G", "E", "_">>, <<"N", "O", "T", "I", "N">>, <<"b", "o", "g", "u", "s">>, <<"G", "E">>, <<"I", "N", " ">>, <<"R", "A", "N", "G", "E", "_", "L", "0">>, <<"r", "a", "n", "g", "e", "-", "l", "o">>}

\* api.py: the metric_type each group of routes is registered with.
ep_mm_dict == [service |-> "monitoring", metric_type |-> "quant_model"]
ep_madm_dict == [service |-> "monitoring", metric_type |-> "ml_model"]
Endpoints == {ep_mm_dict, ep_madm_dict}

\* The model class behind each endpoint's schema (QuantModelMetricSchema,
\* MlModelMetricSchema) and that class's polymorphic identity.
SchemaIdentity(ep) ==
    IF ep = ep_mm_dict THEN "quant_model" ELSE "ml_model_metric"

VARIABLES
    metric,         \* table "metric" joined with its extension table
    metric_config,  \* table "metric_config"
    metric_run,     \* table "metric_run"
    inflight,       \* per thread: the handler between its Begin and its Commit
    resp,           \* per thread: the response of its last request, if it
                    \* finished and no request began since
    deleted,        \* the metric answered by the last successful DELETE of one
    nreq,           \* requests started so far
    call            \* the last call of a function of ThresholdType

vars == <<metric, metric_config, metric_run, inflight, resp, deleted, nreq,
          call>>
store == <<metric, metric_config, metric_run>>

Idle == [op |-> "idle"]
NoResp == [req |-> [n |-> 0, op |-> "none"], code |-> 0]
NoMetric == [metric_id |-> 0, configs |-> {}, runs |-> {}]
NoCall == [fn |-> "none", arg |-> <<>>]

----------------------------------------------------------------------------
(* JSON values and the schemas' deserialisation                            *)

\* An integer field accepts a number or its decimal string.
IsIntStr(s) == s \in {"1", "2", "3"}
IntOf(s) == CASE s = "1" -> 1 [] s = "2" -> 2 [] OTHER -> 3

\* str.format of an integer.
IdStr(id) == CASE id = 1 -> "1" [] id = 2 -> "2" [] OTHER -> "3"

\* str.upper and str.lower, on the strings the requests carry.
Upper(s) ==
    CASE s = "daily" -> "DAILY"
      [] s = "weekly" -> "WEEKLY"
      [] s = "Weekly" -> "WEEKLY"
      [] s = "float" -> "FLOAT"
      [] s = "bogus" -> "BOGUS"
      [] OTHER -> s

Lower(s) ==
    CASE s = "True" -> "true"
      [] s = "TRUE" -> "true"
      [] s = "False" -> "false"
      [] OTHER -> s

\* A query parameter that the code strips is the sequence of its parts, a
\* "-" being a part of its own; str.lstrip(ch).
RECURSIVE lstrip(_, _)
lstrip(str, ch) ==
    IF str # <<>> /\ Head(str) = ch THEN lstrip(Tail(str), ch) ELSE str

\* The from_name classmethod of the enums: the member whose name is
\* name.upper(), ValueError when there is none.
from_name(enum, name) ==
    IF Upper(name) \in enum THEN [ok |-> TRUE, member |-> Upper(name)]
    ELSE [ok |-> FALSE]

\* request.args without parameters.
NoArgs == [k \in {} |-> ""]

\* setattr(instance, key, value) for every key of the loaded data.
Merge(row, data) ==
    [k \in DOMAIN row |-> IF k \in DOMAIN data THEN data[k] ELSE row[k]]

\* The keys of data whose value differs from the loaded row: the columns of
\* the UPDATE the flush emits.
Changed(row, data) == {k \in DOMAIN data : data[k] # row[k]}


----------------------------------------------------------------------------
(* Rows                                                                    *)

\* A Metric as the ORM sees it: the row of "metric" and, under ext, the
\* extension table ("quant_model_metric" or "ml_model_metric") that holds the
\* row sharing its metric_id.  Column defaults: is_active False, frequency
\* WEEKLY.
MetricRow(id, type, ext) ==
    [metric_id |-> id, metric_type |-> type, is_active |-> FALSE,
     frequency |-> "WEEKLY", ext |-> ext]

\* A MetricConfig row; config_type defaults to STRING.
ConfigRow(id, name, value) ==
    [metric_id |-> id, config_name |-> name, config_value |-> value,
     config_type |-> "STRING"]

\* A MetricRun row; exec_time has no default (NULL, here "None").
RunRow(run, id, value) ==
    [run_id |-> run, metric_id |-> id, metric_value |-> value,
     exec_time |-> "None"]

MetricsById(id) == {m \in metric : m.metric_id = id}
ConfigsOf(id) == {c \in metric_config : c.metric_id = id}
RunsOf(id) == {r \in metric_run : r.metric_id = id}
ConfigsByKey(id, name) == {c \in ConfigsOf(id) : c.config_name = name}
RunsById(run) == {r \in metric_run : r.run_id = run}

----------------------------------------------------------------------------
(* Responses                                                               *)

\* A response names the request it answers (req: its ordinal n among the
\* requests, the operation, its route parameters and its json_data).
\* common.success: {"status": "success", "data": result}, code.
success(req, result, code) ==
    [req |-> req, code |-> code, status |-> "success", data |-> result]

\* schema.jsonify(entity): the entity's JSON, 200, no wrapper.
jsonify(req, result) ==
    [req |-> req, code |-> 200, status |-> "", data |-> result]

\* flask_restful.abort(code, message=...), and the 500 of an exception no
\* handler catches.  A message is the set of its parts: the text (or the
\* error's name, or the fields a ValidationError names) and the values
\* formatted into it.
abort(req, code, message) ==
    [req |-> req, code |-> code, status |-> "", data |-> [message |-> message]]

\* MetricSchema.dump: the columns, with configs and runs plucked to their
\* config_name and run_id.
DumpMetric(m) ==
    [metric_id |-> m.metric_id, metric_type |-> m.metric_type,
     is_active |-> m.is_active, frequency |-> m.frequency,
     configs |-> {c.config_name : c \in ConfigsOf(m.metric_id)},
     runs |-> {r.run_id : r \in RunsOf(m.metric_id)}]

----------------------------------------------------------------------------
(* Request scheduling                                                      *)

\* A request is served by a free thread; the threads being alike, a second
\* one is taken only while the first is busy.
CanBegin(t) ==
    /\ inflight[t] = Idle
    /\ nreq < MaxRequests
    /\ t = "t2" => inflight["t1"] # Idle

\* A handler that only reads is one step, which no other request can fall
\* into: it is taken on the first thread.
CanRead(t) == CanBegin(t) /\ t = "t1"

\* The handler of thread t returns r; the dump a DELETE of a metric answers
\* with is remembered.  A handler that returns in the step its request
\* begins (inflight[t] is Idle) starts a new round of responses, as does one
\* that suspends.
Return(t, r) ==
    /\ resp' = [resp EXCEPT ![t] = r]
    /\ inflight' = [inflight EXCEPT ![t] = Idle]
    /\ deleted' = IF r.req.op = "MetricDelete" /\ r.code = 200
                  THEN r.data ELSE deleted
    /\ call' = call

\* The handler of thread t returns r before it reaches a commit.  It has
\* written nothing and what it read no handler in flight has changed yet,
\* so the request is one step that is taken on the first thread, as a read.
Refuse(t, r) == t = "t1" /\ Return(t, r)

\* The handler of thread t reaches its db.session.commit() with the local
\* state f.
Suspend(t, f) ==
    /\ inflight' = [inflight EXCEPT ![t] = f]
    /\ resp' = [resp EXCEPT ![t] = NoResp]
    /\ deleted' = deleted
    /\ call' = call

----------------------------------------------------------------------------
(* common.get_metric_by_id                                                 *)

\* A lookup that takes one_or_none()'s None for a metric: no 404, the caller
\* goes on with an object that has the id asked for.
get_metric_by_id_unchecked(req, id) ==
    IF MetricsById(id) = {}
    THEN [found |-> TRUE, row |-> MetricRow(id, "metric", "metric")]
    ELSE [found |-> TRUE, row |-> CHOOSE x \in MetricsById(id) : TRUE]

\* Metric.query.filter_by(metric_id=...).one_or_none(): 404 when no row has
\* the id; the polymorphic load raises on a row whose metric_type is no
\* polymorphic identity (500); otherwise the row is found.
get_metric_by_id(req, id) ==
    IF MetricsById(id) = {}
    THEN [found |-> FALSE,
          error |-> abort(req, 404, {"Metric not found for Id: {}", IdStr(id)})]
    ELSE LET m == CHOOSE x \in MetricsById(id) : TRUE IN
         IF m.metric_type \notin PolymorphicIdentities
         THEN [found |-> FALSE,
               error |-> abort(req, 500, {"AssertionError"})]
         ELSE [found |-> TRUE, row |-> m]

----------------------------------------------------------------------------
(* Metric schemas (MetricSchema, QuantModelMetricSchema, MlModelMetricSchema) *)

\* The fields the endpoint schemas load: the columns of Metric, with
\* metric_id redeclared loadable by field_for in both subclasses.
MetricLoadFields == {"metric_id", "metric_type", "is_active", "frequency"}

\* schema.load's ValidationError messages, by field: unknown keys, an
\* integer field that is no integer, an EnumField(by_name=True) whose value is
\* not exactly a member name, a required field missing from a full load.
MetricSchemaErrors(data, partial) ==
    (DOMAIN data \ MetricLoadFields)
    \cup {k \in DOMAIN data \cap {"metric_id"} : ~IsIntStr(data[k])}
    \cup {k \in DOMAIN data \cap {"frequency"} : data[k] \notin Frequency}
    \cup (IF partial THEN {} ELSE {"metric_type"} \ DOMAIN data)

\* The deserialised data: metric_id as an integer.
MetricDeserialize(data) ==
    [k \in DOMAIN data |-> IF k = "metric_id" THEN IntOf(data[k]) ELSE data[k]]

\* Request bodies of POST /metrics and PUT /metrics/{id}.
MetricBodies ==
    {[frequency |-> "DAILY"],
     [metric_type |-> "quant_model", is_active |-> TRUE], NoArgs}

MetricPatches ==
    {[is_active |-> TRUE], [frequency |-> "daily"],
     [metric_type |-> "quant_model"], [metric_id |-> "2"], NoArgs}

----------------------------------------------------------------------------
(* resources/metrics.py                                                    *)

\* MetricsResource.post, the two assignments before the load.
PostData(json_data) ==
    [k \in DOMAIN json_data \cup {"metric_id", "metric_type"} |->
        IF k = "metric_id" THEN "TBD"
        ELSE IF k = "metric_type" THEN "model"
        ELSE json_data[k]]

\* MetricsResource.post.  The load returns the row whose primary key the
\* data carries (ModelSchema.get_instance) or a new instance of the schema's
\* model class; db.session.add and commit then write it.
MetricsPost(t, ep, body) ==
    /\ CanBegin(t)
    /\ nreq' = nreq + 1
    /\ LET json_data == IF body = NoArgs THEN body ELSE PostData(body)
           req == [n |-> nreq + 1, op |-> "MetricsPost", ep |-> ep, body |-> body,
                   json_data |-> json_data]
           errors == MetricSchemaErrors(json_data, FALSE)
           data == MetricDeserialize(json_data)
           old == MetricsById(data.metric_id)
           new_metric ==
               IF old # {} THEN Merge(CHOOSE m \in old : TRUE, data)
               ELSE Merge(MetricRow(data.metric_id, SchemaIdentity(ep),
                                    SchemaIdentity(ep)), data)
       IN IF body = NoArgs
          THEN /\ Refuse(t, abort(req, 400, {"No input data provided"}))
               /\ UNCHANGED store
          ELSE IF errors # {}
          THEN /\ Refuse(t, abort(req, 400, errors))
               /\ UNCHANGED store
          ELSE /\ metric' = (metric \ old) \cup {new_metric}
               /\ UNCHANGED <<metric_config, metric_run>>
               /\ Return(t, success(req, DumpMetric(new_metric), 201))

\* Request parameters of GET /metrics.
MetricsArgs ==
    {NoArgs, [is_active |-> "False"], [frequency |-> "weekly"],
     [frequency |-> "bogus"], [sort |-> <<"metric_id">>],
     [sort |-> <<"-", "metric_id">>]}

\* MetricsResource.build_query, then the build_query of the endpoint's
\* subclass: the rows of the query and its order, or the 400 of a parameter
\* that names no enum member.  The is_active parameter starts the query
\* anew from Metric.query; the subclass joins the extension table of its
\* model class.
build_query(req, ep, args) ==
    LET typed == {m \in metric : m.metric_type = ep.metric_type}
        by_active ==
            IF "is_active" \in DOMAIN args
            THEN {m \in metric : m.is_active = (Lower(args.is_active) = "true")}
            ELSE typed
        frequency == IF "frequency" \in DOMAIN args
                     THEN from_name(Frequency, args.frequency)
                     ELSE [ok |-> TRUE]
        by_frequency ==
            IF "frequency" \in DOMAIN args /\ frequency.ok
            THEN {m \in by_active : m.frequency = frequency.member}
            ELSE by_active
        desc == "sort" \in DOMAIN args /\ lstrip(args.sort, "-") = <<"metric_id">>
        joined == {m \in by_frequency : m.ext = SchemaIdentity(ep)}
    IN IF ~frequency.ok
       THEN [ok |-> FALSE,
             error |-> abort(req, 400, {"Invalid 'frequency': {}. Use one of {}",
                                        args.frequency} \cup Frequency)]
       ELSE [ok |-> TRUE, rows |-> joined, desc |-> desc]

\* query.order_by(Metric.metric_id) or (Metric.metric_id.desc()), and all().
RECURSIVE OrderByMetricId(_, _)
OrderByMetricId(rows, desc) ==
    IF rows = {} THEN <<>>
    ELSE LET m == CHOOSE x \in rows : \A y \in rows :
                     IF desc THEN x.metric_id >= y.metric_id
                     ELSE x.metric_id <= y.metric_id
         IN <<m>> \o OrderByMetricId(rows \ {m}, desc)

\* The list requests: every parameter set on the quant-model endpoint, none
\* on the ml-model endpoint.
MetricsRequests ==
    {[ep |-> ep_mm_dict, args |-> args] : args \in MetricsArgs}
        \cup {[ep |-> ep_madm_dict, args |-> NoArgs]}

\* MetricsResource.get: the query, the polymorphic load of its rows, the
\* dump of the collection.
MetricsGet(t, ep, args) ==
    /\ CanRead(t)
    /\ nreq' = nreq + 1
    /\ LET req == [n |-> nreq + 1, op |-> "MetricsGet", ep |-> ep, args |-> args]
           query == build_query(req, ep, args)
           metrics == OrderByMetricId(query.rows, query.desc)
       IN Return(t, IF ~query.ok THEN query.error
                    ELSE IF \E m \in query.rows :
                               m.metric_type \notin PolymorphicIdentities
                         THEN abort(req, 500, {"AssertionError"})
                    ELSE success(req, [i \in DOMAIN metrics |->
                                          DumpMetric(metrics[i])], 200))
    /\ UNCHANGED store

\* MetricResource.get.
MetricGet(t, ep, id) ==
    /\ CanRead(t)
    /\ nreq' = nreq + 1
    /\ LET req == [n |-> nreq + 1, op |-> "MetricGet", ep |-> ep, metric_id |-> id]
           got == get_metric_by_id(req, id)
       IN Return(t, IF got.found THEN jsonify(req, DumpMetric(got.row))
                    ELSE got.error)
    /\ UNCHANGED store

\* MetricResource.put up to its commit: the check of an empty body, the
\* lookup, the partial load onto the instance found.
MetricPutBegin(t, ep, id, json_data) ==
    /\ CanBegin(t)
    /\ nreq' = nreq + 1
    /\ LET req == [n |-> nreq + 1, op |-> "MetricPut", ep |-> ep, metric_id |-> id,
                   json_data |-> json_data]
           got == get_metric_by_id(req, id)
           errors == MetricSchemaErrors(json_data, TRUE)
       IN IF json_data = NoArgs
          THEN Refuse(t, abort(req, 400, {"No input data provided"}))
          ELSE IF ~got.found THEN Refuse(t, got.error)
          ELSE IF errors # {} THEN Refuse(t, abort(req, 400, errors))
          ELSE Suspend(t, [op |-> "MetricPut", req |-> req, loaded |-> got.row,
                           data |-> MetricDeserialize(json_data)])
    /\ UNCHANGED store

\* A flush that writes every column of the instance as the handler holds it,
\* the columns it did not touch included.
UpdateMetricAllColumns(loaded, data) ==
    LET rows == MetricsById(loaded.metric_id)
    IN IF rows = {} THEN [ok |-> FALSE, error |-> "StaleDataError"]
       ELSE IF "metric_id" \in Changed(loaded, data)
            THEN [ok |-> FALSE, error |-> "IntegrityError"]
       ELSE [ok |-> TRUE, metric |-> (metric \ rows) \cup {Merge(loaded, data)}]

\* The flush of a dirty Metric: UPDATE metric SET <changed columns> WHERE
\* metric_id = <loaded id>.  No matched row is a StaleDataError; a changed
\* metric_id leaves the extension table's row referencing the old id, which
\* its foreign key refuses.  Gives the table after the statement, or the
\* error.
UpdateMetric(loaded, data) ==
    LET cols == Changed(loaded, data)
        rows == MetricsById(loaded.metric_id)
        row == CHOOSE m \in rows : TRUE
        set == [k \in cols |-> data[k]]
    IN IF cols = {} THEN [ok |-> TRUE, metric |-> metric]
       ELSE IF rows = {} THEN [ok |-> FALSE, error |-> "StaleDataError"]
       ELSE IF "metric_id" \in cols THEN [ok |-> FALSE, error |-> "IntegrityError"]
       ELSE [ok |-> TRUE, metric |-> (metric \ rows) \cup {Merge(row, set)}]

\* MetricResource.put from its commit on; the answer is the request's
\* json_data.
MetricPutCommit(t) ==
    /\ inflight[t].op = "MetricPut"
    /\ LET f == inflight[t]
           done == UpdateMetric(f.loaded, f.data)
       IN IF done.ok
          THEN /\ metric' = done.metric
               /\ Return(t, success(f.req, f.req.json_data, 200))
          ELSE /\ metric' = metric
               /\ Return(t, abort(f.req, 400, {done.error}))
    /\ UNCHANGED <<metric_config, metric_run, nreq>>

\* MetricResource.delete up to its commit: the lookup, the dump, and
\* db.session.delete, which loads metric.configs and metric.runs for the
\* delete cascade.
MetricDeleteBegin(t, ep, id) ==
    /\ CanBegin(t)
    /\ nreq' = nreq + 1
    /\ LET req == [n |-> nreq + 1, op |-> "MetricDelete", ep |-> ep, metric_id |-> id]
           got == get_metric_by_id(req, id)
       IN IF ~got.found THEN Refuse(t, got.error)
          ELSE Suspend(t, [op |-> "MetricDelete", req |-> req,
                           result |-> DumpMetric(got.row),
                           configs |-> ConfigsOf(id), runs |-> RunsOf(id)])
    /\ UNCHANGED store

\* The flush of a deleted Metric: one DELETE by primary key for each config
\* and run the cascade loaded, then the DELETE of the metric's rows, which
\* the foreign keys of metric_config and metric_run refuse while a row still
\* references the metric.
DeleteMetric(id, configs, runs) ==
    LET cfg == {c \in metric_config :
                   \A d \in configs : <<d.metric_id, d.config_name>>
                                      # <<c.metric_id, c.config_name>>}
        run == {r \in metric_run : \A d \in runs : d.run_id # r.run_id}
    IN IF \E c \in cfg : c.metric_id = id THEN [ok |-> FALSE]
       ELSE IF \E r \in run : r.metric_id = id THEN [ok |-> FALSE]
       ELSE [ok |-> TRUE, metric |-> metric \ MetricsById(id),
             metric_config |-> cfg, metric_run |-> run]

\* A delete whose statements are committed one by one: the DELETEs of the
\* configs and runs stay when the DELETE of the metric is refused.
MetricDeleteCommitPerStatement(t) ==
    /\ inflight[t].op = "MetricDelete"
    /\ LET f == inflight[t]
           done == DeleteMetric(f.req.metric_id, f.configs, f.runs)
       IN IF done.ok
          THEN /\ metric' = done.metric
               /\ metric_config' = done.metric_config
               /\ metric_run' = done.metric_run
               /\ Return(t, success(f.req, f.result, 200))
          ELSE /\ metric' = metric
               /\ metric_config' = metric_config \ f.configs
               /\ metric_run' = metric_run \ f.runs
               /\ Return(t, abort(f.req, 400, {"IntegrityError"}))
    /\ UNCHANGED nreq

\* MetricResource.delete from its commit on; the answer is the dump taken
\* before the delete.
MetricDeleteCommit(t) ==
    /\ inflight[t].op = "MetricDelete"
    /\ LET f == inflight[t]
           done == DeleteMetric(f.req.metric_id, f.configs, f.runs)
       IN IF done.ok
          THEN /\ metric' = done.metric
               /\ metric_config' = done.metric_config
               /\ metric_run' = done.metric_run
               /\ Return(t, success(f.req, f.result, 200))
          ELSE /\ UNCHANGED store
               /\ Return(t, abort(f.req, 400, {"IntegrityError"}))
    /\ UNCHANGED nreq


----------------------------------------------------------------------------
(* MetricConfigSchema and resources/configs.py                             *)

\* metric_id is dump_only, so the schema loads the other three columns.
ConfigLoadFields == {"config_name", "config_value", "config_type"}

\* config_name and config_value are NOT NULL without a default: required.
ConfigSchemaErrors(data, partial) ==
    (DOMAIN data \ ConfigLoadFields)
    \cup {k \in DOMAIN data \cap {"config_type"} : data[k] \notin ConfigType}
    \cup (IF partial THEN {} ELSE {"config_name", "config_value"} \ DOMAIN data)

ConfigBodies ==
    {[config_name |-> "a", config_value |-> "y", config_type |-> "FLOAT"],
     [config_name |-> "b", config_value |-> "x"],
     [config_name |-> "b", config_value |-> "y"],
     [config_name |-> "b", config_value |-> "x", config_type |-> "float"],
     NoArgs}

ConfigPatches ==
    {[config_value |-> "y"], [config_name |-> "b"], [config_type |-> "float"],
     NoArgs}

\* MetricConfigSchema.dump.
DumpConfig(c) == c

\* MetricsConfigResource.post up to its commit: for an empty body abort is
\* called with the message as a second positional argument, which
\* flask_restful.abort(http_status_code, **kwargs) does not take (TypeError,
\* 500); the load builds a new
\* MetricConfig (the data has no metric_id, so get_instance finds none), the
\* metric is looked up and the config attached to it.
ConfigsPostBegin(t, id, json_data) ==
    /\ CanBegin(t)
    /\ nreq' = nreq + 1
    /\ LET req == [n |-> nreq + 1, op |-> "ConfigsPost", metric_id |-> id, json_data |-> json_data]
           errors == ConfigSchemaErrors(json_data, FALSE)
           got == get_metric_by_id(req, id)
       IN IF json_data = NoArgs THEN Refuse(t, abort(req, 500, {"TypeError"}))
          ELSE IF errors # {} THEN Refuse(t, abort(req, 400, errors))
          ELSE IF ~got.found THEN Refuse(t, got.error)
          ELSE Suspend(t, [op |-> "ConfigsPost", req |-> req,
                           metric_config |->
                               Merge(ConfigRow(got.row.metric_id,
                                               json_data.config_name,
                                               json_data.config_value),
                                     json_data)])
    /\ UNCHANGED store

\* Three variants of the INSERT: without the foreign key, without the
\* primary key, and as an upsert on the primary key.
InsertConfigNoForeignKey(c) ==
    IF ConfigsByKey(c.metric_id, c.config_name) # {} THEN [ok |-> FALSE]
    ELSE [ok |-> TRUE, metric_config |-> metric_config \cup {c}]

InsertConfigNoPrimaryKey(c) ==
    IF MetricsById(c.metric_id) = {} THEN [ok |-> FALSE]
    ELSE [ok |-> TRUE, metric_config |-> metric_config \cup {c}]

InsertConfigUpsert(c) ==
    IF MetricsById(c.metric_id) = {} THEN [ok |-> FALSE]
    ELSE [ok |-> TRUE,
          metric_config |-> (metric_config
                                \ ConfigsByKey(c.metric_id, c.config_name))
                            \cup {c}]

\* INSERT INTO metric_config: the primary key (metric_id, config_name) and
\* the foreign key to metric.metric_id are checked by the database.
InsertConfig(c) ==
    IF ConfigsByKey(c.metric_id, c.config_name) # {} THEN [ok |-> FALSE]
    ELSE IF MetricsById(c.metric_id) = {} THEN [ok |-> FALSE]
    ELSE [ok |-> TRUE, metric_config |-> metric_config \cup {c}]

\* MetricsConfigResource.post from db.session.add on.
ConfigsPostCommit(t) ==
    /\ inflight[t].op = "ConfigsPost"
    /\ LET f == inflight[t]
           done == InsertConfig(f.metric_config)
       IN IF done.ok
          THEN /\ metric_config' = done.metric_config
               /\ Return(t, success(f.req, DumpConfig(f.metric_config), 201))
          ELSE /\ metric_config' = metric_config
               /\ Return(t, abort(f.req, 400, {"IntegrityError"}))
    /\ UNCHANGED <<metric, metric_run, nreq>>

\* A lookup whose 404 does not say what was looked up.
get_metric_config_by_name_unnamed(req, id, name) ==
    IF ConfigsByKey(id, name) = {}
    THEN [found |-> FALSE, error |-> abort(req, 404, {"Metric Config not found"})]
    ELSE [found |-> TRUE, row |-> CHOOSE c \in ConfigsByKey(id, name) : TRUE]

\* MetricConfigResource._get_metric_config_by_name.
get_metric_config_by_name(req, id, name) ==
    IF ConfigsByKey(id, name) = {}
    THEN [found |-> FALSE,
          error |-> abort(req, 404,
                          {"Metric Config not found for metric_id: {} and config name {}",
                           IdStr(id), name})]
    ELSE [found |-> TRUE, row |-> CHOOSE c \in ConfigsByKey(id, name) : TRUE]

\* Request parameters of GET /metrics/{metric_id}/configs.
ConfigsArgs ==
    {NoArgs, [sort |-> <<"config_name">>], [sort |-> <<"-", "config_name">>]}

\* The place of a config_name in the order of the column.
NameRank(name) == IF name = "a" THEN 1 ELSE 2

\* query.order_by(MetricConfig.config_name) or (...desc()), and all().
RECURSIVE OrderByConfigName(_, _)
OrderByConfigName(rows, desc) ==
    IF rows = {} THEN <<>>
    ELSE LET c == CHOOSE x \in rows : \A y \in rows :
                     IF desc THEN NameRank(x.config_name) >= NameRank(y.config_name)
                     ELSE NameRank(x.config_name) <= NameRank(y.config_name)
         IN <<c>> \o OrderByConfigName(rows \ {c}, desc)

\* MetricsConfigResource.get: the configs of the metric_id (of a metric or
\* not), ordered.
ConfigsGet(t, id, args) ==
    /\ CanRead(t)
    /\ nreq' = nreq + 1
    /\ LET req == [n |-> nreq + 1, op |-> "ConfigsGet", metric_id |-> id,
                   args |-> args]
           desc == /\ "sort" \in DOMAIN args
                   /\ LET stripped == lstrip(args.sort, "-")
                      IN [i \in DOMAIN stripped |-> Lower(stripped[i])]
                            = <<"config_name">>
           configs == OrderByConfigName(ConfigsOf(id), desc)
       IN Return(t, success(req, [i \in DOMAIN configs |->
                                     DumpConfig(configs[i])], 200))
    /\ UNCHANGED store

\* MetricConfigResource.get.
ConfigGet(t, id, name) ==
    /\ CanRead(t)
    /\ nreq' = nreq + 1
    /\ LET req == [n |-> nreq + 1, op |-> "ConfigGet", metric_id |-> id, config_name |-> name]
           got == get_metric_config_by_name(req, id, name)
       IN Return(t, IF got.found THEN jsonify(req, DumpConfig(got.row))
                    ELSE got.error)
    /\ UNCHANGED store

\* MetricConfigResource.put up to its commit.
ConfigPutBegin(t, id, name, json_data) ==
    /\ CanBegin(t)
    /\ nreq' = nreq + 1
    /\ LET req == [n |-> nreq + 1, op |-> "ConfigPut", metric_id |-> id, config_name |-> name,
                   json_data |-> json_data]
           got == get_metric_config_by_name(req, id, name)
           errors == ConfigSchemaErrors(json_data, TRUE)
       IN IF json_data = NoArgs
          THEN Refuse(t, abort(req, 400, {"No input data provided"}))
          ELSE IF ~got.found THEN Refuse(t, got.error)
          ELSE IF errors # {} THEN Refuse(t, abort(req, 400, errors))
          ELSE Suspend(t, [op |-> "ConfigPut", req |-> req, loaded |-> got.row,
                           data |-> json_data])
    /\ UNCHANGED store

\* The flush of a dirty MetricConfig: UPDATE metric_config SET <changed
\* columns> WHERE the loaded primary key; a changed config_name must not meet
\* another row's key.
UpdateConfig(loaded, data) ==
    LET cols == Changed(loaded, data)
        rows == ConfigsByKey(loaded.metric_id, loaded.config_name)
        row == CHOOSE c \in rows : TRUE
        set == [k \in cols |-> data[k]]
    IN IF cols = {} THEN [ok |-> TRUE, metric_config |-> metric_config]
       ELSE IF rows = {} THEN [ok |-> FALSE, error |-> "StaleDataError"]
       ELSE IF /\ "config_name" \in cols
               /\ ConfigsByKey(loaded.metric_id, data.config_name) # {}
            THEN [ok |-> FALSE, error |-> "IntegrityError"]
       ELSE [ok |-> TRUE,
             metric_config |-> (metric_config \ rows) \cup {Merge(row, set)}]

\* MetricConfigResource.put from its commit on.
ConfigPutCommit(t) ==
    /\ inflight[t].op = "ConfigPut"
    /\ LET f == inflight[t]
           done == UpdateConfig(f.loaded, f.data)
       IN IF done.ok
          THEN /\ metric_config' = done.metric_config
               /\ Return(t, success(f.req, f.req.json_data, 200))
          ELSE /\ metric_config' = metric_config
               /\ Return(t, abort(f.req, 400, {done.error}))
    /\ UNCHANGED <<metric, metric_run, nreq>>

\* MetricConfigResource.delete up to its commit.
ConfigDeleteBegin(t, id, name) ==
    /\ CanBegin(t)
    /\ nreq' = nreq + 1
    /\ LET req == [n |-> nreq + 1, op |-> "ConfigDelete", metric_id |-> id, config_name |-> name]
           got == get_metric_config_by_name(req, id, name)
       IN IF ~got.found THEN Refuse(t, got.error)
          ELSE Suspend(t, [op |-> "ConfigDelete", req |-> req,
                           result |-> DumpConfig(got.row)])
    /\ UNCHANGED store

\* MetricConfigResource.delete from its commit on: DELETE by primary key.
ConfigDeleteCommit(t) ==
    /\ inflight[t].op = "ConfigDelete"
    /\ LET f == inflight[t] IN
          /\ metric_config' = metric_config
                 \ ConfigsByKey(f.req.metric_id, f.req.config_name)
          /\ Return(t, success(f.req, f.result, 200))
    /\ UNCHANGED <<metric, metric_run, nreq>>


----------------------------------------------------------------------------
(* MetricRunSchema and resources/runs.py                                   *)

\* metric_id is dump_only; run_id, the primary key, is loaded.
RunLoadFields == {"run_id", "metric_value", "exec_time"}

\* metric_value is NOT NULL without a default: required.
RunSchemaErrors(data, partial) ==
    (DOMAIN data \ RunLoadFields)
    \cup (IF partial THEN {} ELSE {"metric_value"} \ DOMAIN data)

RunBodies ==
    {[metric_value |-> "1"], [run_id |-> "r1", metric_value |-> "2"],
     [run_id |-> "r1"], NoArgs}

\* MetricRunSchema.dump.
DumpRun(r) == r

\* ModelSchema.get_instance for MetricRunSchema: the rows whose primary key
\* is the run_id of the data, none when the data has no run_id.
get_instance(data) ==
    IF "run_id" \in DOMAIN data THEN RunsById(data.run_id) ELSE {}

\* MetricRunsResource.post up to its commit: the load gives the stored run
\* of that run_id with the data's values set on it, or a new MetricRun; the
\* metric is looked up and the run attached to it.
RunsPostBegin(t, id, json_data) ==
    /\ CanBegin(t)
    /\ nreq' = nreq + 1
    /\ LET req == [n |-> nreq + 1, op |-> "RunsPost", metric_id |-> id, json_data |-> json_data]
           errors == RunSchemaErrors(json_data, FALSE)
           got == get_metric_by_id(req, id)
           instance == get_instance(json_data)
           data == [k \in DOMAIN json_data \cup {"metric_id"} |->
                       IF k = "metric_id" THEN id ELSE json_data[k]]
       IN IF json_data = NoArgs THEN Refuse(t, abort(req, 500, {"TypeError"}))
          ELSE IF errors # {} THEN Refuse(t, abort(req, 400, errors))
          ELSE IF ~got.found THEN Refuse(t, got.error)
          ELSE Suspend(t, [op |-> "RunsPost", req |-> req,
                           persistent |-> instance # {},
                           loaded |-> instance, data |-> data])
    /\ UNCHANGED store

\* The flush of a dirty MetricRun: UPDATE metric_run SET <changed columns>
\* WHERE run_id = <loaded id>; the foreign key checks a changed metric_id.
UpdateRun(loaded, data) ==
    LET cols == Changed(loaded, data)
        rows == RunsById(loaded.run_id)
        row == CHOOSE r \in rows : TRUE
        set == [k \in cols |-> data[k]]
    IN IF cols = {} THEN [ok |-> TRUE, metric_run |-> metric_run, row |-> loaded]
       ELSE IF rows = {} THEN [ok |-> FALSE, error |-> "StaleDataError"]
       ELSE IF "metric_id" \in cols /\ MetricsById(data.metric_id) = {}
            THEN [ok |-> FALSE, error |-> "IntegrityError"]
       ELSE [ok |-> TRUE, metric_run |-> (metric_run \ rows) \cup {Merge(row, set)},
             row |-> Merge(loaded, data)]

\* The INSERT without the primary key.
InsertRunNoPrimaryKey(r) ==
    IF MetricsById(r.metric_id) = {}
    THEN [ok |-> FALSE, error |-> "IntegrityError"]
    ELSE [ok |-> TRUE, metric_run |-> metric_run \cup {r}, row |-> r]

\* INSERT INTO metric_run: the primary key run_id and the foreign key to
\* metric.metric_id are checked by the database.
InsertRun(r) ==
    IF RunsById(r.run_id) # {} THEN [ok |-> FALSE, error |-> "IntegrityError"]
    ELSE IF MetricsById(r.metric_id) = {}
         THEN [ok |-> FALSE, error |-> "IntegrityError"]
    ELSE [ok |-> TRUE, metric_run |-> metric_run \cup {r}, row |-> r]

\* The run_id of a new run: the data's, or the column default uuid.uuid4, a
\* token no stored run has.
NewRunIds(data) ==
    IF "run_id" \in DOMAIN data THEN {data.run_id}
    ELSE RunIds \ {r.run_id : r \in metric_run}

\* MetricRunsResource.post from db.session.add on.
RunsPostCommit(t) ==
    /\ inflight[t].op = "RunsPost"
    /\ LET f == inflight[t] IN
       \E run \in (IF f.persistent THEN {"-"} ELSE NewRunIds(f.data)) :
          LET done == IF f.persistent
                      THEN UpdateRun(CHOOSE r \in f.loaded : TRUE, f.data)
                      ELSE InsertRun(Merge(RunRow(run, f.data.metric_id,
                                                  f.data.metric_value), f.data))
          IN IF done.ok
             THEN /\ metric_run' = done.metric_run
                  /\ Return(t, success(f.req, DumpRun(done.row), 201))
             ELSE /\ metric_run' = metric_run
                  /\ Return(t, abort(f.req, 400, {done.error}))
    /\ UNCHANGED <<metric, metric_config, nreq>>

\* resources/common.py: COB_DATE_FORMAT, and datetime.strptime with it on
\* the date strings the requests carry: the day's number in its year, or
\* ValueError.
COB_DATE_FORMAT == "%Y-%m-%d"

strptime(date_str, format) ==
    CASE format # COB_DATE_FORMAT -> [ok |-> FALSE]
      [] date_str = "2024-01-01" -> [ok |-> TRUE, day |-> 1]
      [] date_str = "2024-01-31" -> [ok |-> TRUE, day |-> 31]
      [] date_str = "2024-02-15" -> [ok |-> TRUE, day |-> 46]
      [] OTHER -> [ok |-> FALSE]

\* _datestr_to_datetime: the 400 names the label.
datestr_to_datetime(req, date_str, label) ==
    LET parsed == strptime(date_str, COB_DATE_FORMAT)
    IN IF parsed.ok THEN parsed
       ELSE [ok |-> FALSE,
             error |-> abort(req, 400,
                             {"Error parsing '{}' to datetime: {}", label})]

\* Request parameters of GET /metrics/{metric_id}/runs.
RunsArgs ==
    {NoArgs, [start |-> "2024-01-01", end |-> "2024-01-31"],
     [start |-> "31/01/2024"], [status |-> "bogus"],
     [end |-> "2024-13-01"], [start |-> "2024-01-01", end |-> "2024-13-01"]}

\* MetricRunsResource.get.  MetricRun has no attribute cob_date: the first
\* expression that names it (the start filter, the end filter, at the latest
\* the order_by of either branch) raises AttributeError, which no handler
\* catches; only the 400 of a malformed start, end or status comes before.
RunsGet(t, id, args) ==
    /\ CanRead(t)
    /\ nreq' = nreq + 1
    /\ LET req == [n |-> nreq + 1, op |-> "RunsGet", metric_id |-> id, args |-> args]
           start == IF "start" \in DOMAIN args
                    THEN datestr_to_datetime(req, args.start, "start")
                    ELSE [ok |-> TRUE]
           end == IF "end" \in DOMAIN args
                  THEN datestr_to_datetime(req, args.end, "end")
                  ELSE [ok |-> TRUE]
           status == IF "status" \in DOMAIN args
                     THEN from_name(MetricStatus, args.status)
                     ELSE [ok |-> TRUE]
           AttributeError == abort(req, 500, {"AttributeError", "cob_date"})
       IN Return(t, IF "start" \in DOMAIN args
                    THEN (IF start.ok THEN AttributeError ELSE start.error)
                    ELSE IF "end" \in DOMAIN args
                    THEN (IF end.ok THEN AttributeError ELSE end.error)
                    ELSE IF ~status.ok
                    THEN abort(req, 400, {"Invalid 'status': {}. Use one of {}",
                                          args.status} \cup MetricStatus)
                    ELSE AttributeError)
    /\ UNCHANGED store

\* The keys of the single-run requests: a run of each metric.
RunKeys == {[metric_id |-> 1, run_id |-> "r1"], [metric_id |-> 2, run_id |-> "r2"]}

\* MetricRunResource.get, put and delete: the routes of api.py pass the URL
\* variable as the keyword run_id, the methods take cob_date, so the call
\* raises TypeError before the method's body runs: 500.
RunResource(t, method, id, run) ==
    /\ CanRead(t)
    /\ nreq' = nreq + 1
    /\ Return(t, abort([n |-> nreq + 1, op |-> method, metric_id |-> id,
                        run_id |-> run], 500,
                       {"TypeError"}))
    /\ UNCHANGED store

----------------------------------------------------------------------------
(* The system                                                              *)

\* The store at start: no metric, the first or both; the first is a
\* QuantModelMetric with no, one or two configs and runs, the second an
\* MlModelMetric or (beside a first without children) a QuantModelMetric;
\* all at their column defaults.
InitialChildren ==
    {[configs |-> {}, runs |-> {}],
     [configs |-> {"a"}, runs |-> {"r1"}],
     [configs |-> {"a", "b"}, runs |-> {"r1", "r2"}]}

InitialExecTime(run) == IF run = "r1" THEN "2024-01-31" ELSE "2024-02-15"

Init ==
    /\ \E S \in {{}, {1}, {1, 2}}, second \in {"ml_model_metric", "quant_model"} :
          /\ second = "quant_model" => S = MetricIds
          /\ metric = {MetricRow(id, IF id = 1 THEN "quant_model" ELSE second,
                                 IF id = 1 THEN "quant_model" ELSE second)
                          : id \in S}
          /\ \E ch \in InitialChildren :
                /\ (1 \notin S \/ second = "quant_model") => ch.configs = {}
                /\ metric_config = {ConfigRow(1, name, "x") : name \in ch.configs}
                /\ metric_run = {Merge(RunRow(r, 1, "1"),
                                       [exec_time |-> InitialExecTime(r)])
                                    : r \in ch.runs}
    /\ inflight = [t \in Threads |-> Idle]
    /\ resp = [t \in Threads |-> NoResp]
    /\ deleted = NoMetric
    /\ nreq = 0
    /\ call = NoCall

\* The endpoint and metric id of the PUT and DELETE requests drawn: the
\* quantitative endpoint with every id, the ML endpoint with the id the
\* seeded store gives its ML metric.  The handlers are MetricResource's
\* for both endpoints and never read the endpoint's metric_type, so the
\* quantitative endpoint on id 2 is the request through the other variant's
\* endpoint.
MetricWriteRequests ==
    {[ep |-> ep, id |-> id] : ep \in Endpoints, id \in MetricIds} \
        {[ep |-> ep_madm_dict, id |-> 1]}

Next ==
    \/ \E t \in Threads, ep \in Endpoints, body \in MetricBodies :
          MetricsPost(t, ep, body)
    \/ \E t \in Threads, q \in MetricsRequests :
          MetricsGet(t, q.ep, q.args)
    \/ \E t \in Threads, ep \in Endpoints, id \in MetricIds :
          MetricGet(t, ep, id)
    \/ \E t \in Threads, q \in MetricWriteRequests,
          body \in MetricPatches : MetricPutBegin(t, q.ep, q.id, body)
    \/ \E t \in Threads : MetricPutCommit(t)
    \/ \E t \in Threads, q \in MetricWriteRequests :
          MetricDeleteBegin(t, q.ep, q.id)
    \/ \E t \in Threads : MetricDeleteCommit(t)
    \/ \E t \in Threads, id \in MetricIds, body \in ConfigBodies :
          ConfigsPostBegin(t, id, body)
    \/ \E t \in Threads : ConfigsPostCommit(t)
    \/ \E t \in Threads, id \in MetricIds, args \in ConfigsArgs :
          ConfigsGet(t, id, args)
    \/ \E t \in Threads, id \in MetricIds, name \in ConfigNames :
          ConfigGet(t, id, name)
    \/ \E t \in Threads, id \in MetricIds, name \in ConfigNames,
          body \in ConfigPatches : ConfigPutBegin(t, id, name, body)
    \/ \E t \in Threads : ConfigPutCommit(t)
    \/ \E t \in Threads, id \in MetricIds, name \in ConfigNames :
          ConfigDeleteBegin(t, id, name)
    \/ \E t \in Threads : ConfigDeleteCommit(t)
    \/ \E t \in Threads, id \in MetricIds, body \in RunBodies :
          RunsPostBegin(t, id, body)
    \/ \E t \in Threads : RunsPostCommit(t)
    \/ \E t \in Threads, id \in MetricIds, args \in RunsArgs :
          RunsGet(t, id, args)
    \/ \E t \in Threads, key \in RunKeys,
          method \in {"RunGet", "RunPut", "RunDelete"} :
          RunResource(t, method, key.metric_id, key.run_id)

Spec == Init /\ [][Next]_vars

----------------------------------------------------------------------------
(* The functions of ThresholdType, called on their own                     *)

\* No request is served; a name is drawn for the calls.
EnumInit ==
    /\ metric = {} /\ metric_config = {} /\ metric_run = {}
    /\ inflight = [t \in Threads |-> Idle]
    /\ resp = [t \in Threads |-> NoResp]
    /\ deleted = NoMetric
    /\ nreq = 0
    /\ \E name \in EnumNames : call = [fn |-> "none", arg |-> name]

\* A call of a function on the name drawn; no request is served.
Calls(fn, result) ==
    call' = [fn |-> fn, arg |-> call.arg, result |-> result]

served == <<metric, metric_config, metric_run, inflight, resp, deleted, nreq>>

FromName ==
    /\ Calls("from_name", ThresholdType_from_name(call.arg))
    /\ UNCHANGED served

Values ==
    /\ Calls("values", ThresholdType_values)
    /\ UNCHANGED served

IsRange ==
    /\ call.arg \in ThresholdType
    /\ Calls("is_range", is_range(call.arg))
    /\ UNCHANGED served

IsSet ==
    /\ call.arg \in ThresholdType
    /\ Calls("is_set", is_set(call.arg))
    /\ UNCHANGED served

\* MetricsResource.build_query on the parameter threshold_type: the member,
\* or the 400 whose message gives the value and ThresholdType.values().
ThresholdTypeParameter ==
    /\ LET threshold_type == ThresholdType_from_name(call.arg)
       IN Calls("threshold_type",
                IF threshold_type.ok THEN threshold_type
                ELSE [ok |-> FALSE, error |-> "400",
                      text |-> "Invalid 'threshold_type': {}. Use one of {}",
                      args |-> <<call.arg>>,
                      listed |-> {ThresholdType_values[i] :
                                     i \in DOMAIN ThresholdType_values}])
    /\ UNCHANGED served

EnumNext == FromName \/ Values \/ IsRange \/ IsSet \/ ThresholdTypeParameter

EnumSpec == EnumInit /\ [][EnumNext]_vars

----------------------------------------------------------------------------
(* Properties                                                              *)

\* Thread t's handler returns in this step; resp'[t] is its response.
Returns(t) == resp'[t].req.n # resp[t].req.n /\ resp'[t].req.n # 0

\* Thread t's handler returns from its commit in this step.
ReturnsFromCommit(t) == Returns(t) /\ inflight[t] # Idle

\* Thread t takes a request in this step; Started(t) is the request.
Begins(t) ==
    /\ nreq' = nreq + 1
    /\ inflight[t] = Idle
    /\ (t = "t2") = (inflight["t1"] # Idle)

Started(t) == IF inflight'[t] # Idle THEN inflight'[t].req ELSE resp'[t].req

\* The body of a create request passes its schema.
ValidBody(req) ==
    CASE req.op = "ConfigsPost" -> ConfigSchemaErrors(req.json_data, FALSE) = {}
      [] req.op = "RunsPost" -> RunSchemaErrors(req.json_data, FALSE) = {}
      [] req.op = "MetricsPost" ->
            req.body # NoArgs /\ MetricSchemaErrors(req.body, TRUE) = {}
      [] OTHER -> TRUE

SuccessCodes == {200, 201}

\* C1: in every reachable state every MetricConfig and every MetricRun
\* references a Metric that exists: no config or run row outlives its metric,
\* and none is stored under a metric_id that no metric has, whatever the
\* interleaving of the requests.
C1_ChildrenHaveMetric ==
    /\ \A c \in metric_config : MetricsById(c.metric_id) # {}
    /\ \A r \in metric_run : MetricsById(r.metric_id) # {}

\* A metric that owned configs and runs was deleted while a request creating
\* a config of the same metric was in flight, and that request was refused at
\* its commit.
C1_Witness ==
    \E t, u \in Threads :
        /\ resp[t].req.op = "MetricDelete"
        /\ resp[t].code = 200
        /\ resp[t].data.configs # {}
        /\ resp[t].data.runs # {}
        /\ resp[u].req.op = "ConfigsPost"
        /\ resp[u].req.metric_id = resp[t].req.metric_id
        /\ ValidBody(resp[u].req)
        /\ resp[u].code = 400
        /\ MetricsById(resp[t].req.metric_id) = {}

\* C2: a successful deleteMetric leaves no row of the metric, of its configs
\* or of its runs, and afterwards (while the metric_id has no metric) a
\* getConfig for a config name and a getRun for a run key the deleted metric
\* had answer 404.
C2_DeleteMetricThenNotFound ==
    [][\A t \in Threads : Returns(t) =>
          LET r == resp'[t] IN
          /\ (r.req.op = "MetricDelete" /\ r.code = 200) =>
                /\ \A m \in metric' : m.metric_id # r.req.metric_id
                /\ \A c \in metric_config' : c.metric_id # r.req.metric_id
                /\ \A x \in metric_run' : x.metric_id # r.req.metric_id
          /\ (/\ r.req.op = "ConfigGet"
              /\ r.req.metric_id = deleted.metric_id
              /\ r.req.config_name \in deleted.configs
              /\ MetricsById(r.req.metric_id) = {}) => r.code = 404
          /\ (/\ r.req.op = "RunGet"
              /\ r.req.metric_id = deleted.metric_id
              /\ r.req.run_id \in deleted.runs
              /\ MetricsById(r.req.metric_id) = {}) => r.code = 404]_vars

\* C3: a metric's metric_type never changes: no step, an updateMetric whose
\* patch names metric_type included, leaves a metric_id with another
\* metric_type than it had.
C3_MetricTypeNeverChanges ==
    [][\A m \in metric : \A m2 \in metric' :
          m2.metric_id = m.metric_id => m2.metric_type = m.metric_type]_vars

\* C4: createMetric sets metric_type from the binding of the operation
\* (quant_model, ml_model_metric), whatever the body carries: the data it
\* loads has that metric_type, and so has the metric of a 201 answer.
C4_TypeFromBinding ==
    \A t \in Threads :
      (resp[t].req.op = "MetricsPost" /\ resp[t].req.body # NoArgs) =>
        /\ resp[t].req.json_data.metric_type = SchemaIdentity(resp[t].req.ep)
        /\ resp[t].code = 201 =>
              resp[t].data.metric_type = SchemaIdentity(resp[t].req.ep)

\* C5: createMetric with valid fields answers 201 with a metric_id no stored
\* metric had, and the metric stored under that id (what getMetric dumps) has
\* the supplied fields and the metric_type of the operation.
C5_CreateThenGet ==
    [][\A t \in Threads :
          (Returns(t) /\ resp'[t].req.op = "MetricsPost"
                      /\ ValidBody(resp'[t].req)) =>
             LET r == resp'[t] IN
             /\ r.code = 201
             /\ MetricsById(r.data.metric_id) = {}
             /\ \E m \in metric' :
                   /\ m.metric_id = r.data.metric_id
                   /\ m.metric_type = SchemaIdentity(r.req.ep)
                   /\ \A k \in DOMAIN r.req.body \ {"metric_type"} :
                         m[k] = r.req.body[k]
                   /\ DumpMetric(m) = r.data]_vars

C7_SecondCreateConfigRefused ==
    [][\A t \in Threads : Returns(t) =>
          LET r == resp'[t] IN
          /\ (/\ r.req.op = "ConfigsPost"
              /\ ValidBody(r.req)
              /\ ConfigsByKey(r.req.metric_id, r.req.json_data.config_name) # {})
                => (r.code = 400 /\ metric_config' = metric_config)
          /\ (/\ r.req.op = "ConfigGet"
              /\ ConfigsByKey(r.req.metric_id, r.req.config_name) # {})
                => /\ r.code = 200
                   /\ r.data \in ConfigsByKey(r.req.metric_id, r.req.config_name)
                   /\ metric_config' = metric_config]_vars

\* Two createConfig requests named the same key with different values: the
\* first got 201, the second 400, and the stored config is the first's.
C7_Witness ==
    \E t, u \in Threads :
        /\ resp[t].req.op = "ConfigsPost"
        /\ resp[t].code = 201
        /\ resp[u].req.op = "ConfigsPost"
        /\ ValidBody(resp[u].req)
        /\ resp[u].code = 400
        /\ resp[u].req.metric_id = resp[t].req.metric_id
        /\ resp[u].req.json_data.config_name = resp[t].req.json_data.config_name
        /\ resp[u].req.json_data.config_value # resp[t].req.json_data.config_value
        /\ ConfigsByKey(resp[t].req.metric_id, resp[t].req.json_data.config_name)
               = {resp[t].data}

\* C8: in every reachable state no two MetricConfig rows share (metric_id,
\* config_name); a createConfig returns success only when no row had its key
\* just before its commit and exactly one has it just after, so of two
\* concurrent creates of one key at most one succeeds.
C8_ConfigKeyUnique ==
    /\ [](\A c1, c2 \in metric_config :
             (c1.metric_id = c2.metric_id /\ c1.config_name = c2.config_name)
                => c1 = c2)
    /\ [][\A t \in Threads :
             (Returns(t) /\ resp'[t].req.op = "ConfigsPost"
                         /\ resp'[t].code = 201) =>
                LET id == resp'[t].req.metric_id
                    name == resp'[t].req.json_data.config_name
                IN /\ ConfigsByKey(id, name) = {}
                   /\ Cardinality({c \in metric_config' :
                                     c.metric_id = id /\ c.config_name = name}) = 1]_vars

\* Two createConfig requests for one key were in flight together (the
\* second began before the first returned); one returned 201, the other 400,
\* and one row has the key.
C8_Witness ==
    /\ resp["t1"].req.op = "ConfigsPost"
    /\ resp["t2"].req.op = "ConfigsPost"
    /\ resp["t2"].req.n = resp["t1"].req.n + 1
    /\ resp["t1"].req.metric_id = resp["t2"].req.metric_id
    /\ ValidBody(resp["t1"].req)
    /\ ValidBody(resp["t2"].req)
    /\ resp["t1"].req.json_data.config_name = resp["t2"].req.json_data.config_name
    /\ {resp["t1"].code, resp["t2"].code} = {201, 400}
    /\ Cardinality(ConfigsByKey(resp["t1"].req.metric_id,
                                resp["t1"].req.json_data.config_name)) = 1

C10_FailedCommitNoWrite ==
    [][/\ \A t \in Threads :
             (ReturnsFromCommit(t) /\ resp'[t].code \notin SuccessCodes) =>
                (UNCHANGED store /\ inflight'[t] = Idle)
       /\ store' # store =>
             \E t \in Threads :
                Returns(t) /\ resp'[t].code \in SuccessCodes]_vars

\* A deleteMetric whose cascade had loaded a config was refused at its commit
\* because a config created meanwhile references the metric: both configs
\* and the metric are stored.
C10_Witness ==
    \E t, u \in Threads :
        /\ resp[t].req.op = "MetricDelete"
        /\ resp[t].code = 400
        /\ resp[u].req.op = "ConfigsPost"
        /\ resp[u].code = 201
        /\ resp[u].req.metric_id = resp[t].req.metric_id
        /\ MetricsById(resp[t].req.metric_id) # {}
        /\ Cardinality(ConfigsOf(resp[t].req.metric_id)) = 2

\* The columns a dump of a metric has.
MetricDumpFields ==
    {"metric_id", "metric_type", "is_active", "frequency", "configs", "runs"}

\* The metric_ids of a list answer, in its order.
ListedIds(r) == [i \in DOMAIN r.data |-> r.data[i].metric_id]

\* C11: listMetrics returns exactly the metrics of the variant of its
\* endpoint that pass every filter supplied (is_active, frequency): no
\* metric of the other variant, none failing a filter, and all of the
\* variant that pass; with no filter, all metrics of the variant.
C11_ListMetricsExact ==
    [][\A t \in Threads :
          (Returns(t) /\ resp'[t].req.op = "MetricsGet"
                      /\ resp'[t].code = 200) =>
             LET r == resp'[t]
                 args == r.req.args
                 want == {m \in metric :
                            /\ m.metric_type = SchemaIdentity(r.req.ep)
                            /\ "is_active" \in DOMAIN args =>
                                  m.is_active = (Lower(args.is_active) = "true")
                            /\ "frequency" \in DOMAIN args =>
                                  m.frequency = Upper(args.frequency)}
             IN {ListedIds(r)[i] : i \in DOMAIN r.data}
                    = {m.metric_id : m \in want}]_vars

\* C12: listMetrics orders by metric_id ascending when sort is absent, is
\* "metric_id" or is any other value, and descending only for "-metric_id".
C12_ListMetricsOrder ==
    [][\A t \in Threads :
          (Returns(t) /\ resp'[t].req.op = "MetricsGet"
                      /\ resp'[t].code = 200) =>
             LET r == resp'[t]
                 ids == ListedIds(r)
                 desc == /\ "sort" \in DOMAIN r.req.args
                         /\ r.req.args.sort = <<"-", "metric_id">>
             IN \A i, j \in DOMAIN ids :
                   i < j => IF desc THEN ids[i] > ids[j] ELSE ids[i] < ids[j]]_vars

\* C13: listRuns(metricId, {start, end}) with well-formed parameters answers
\* 200 with exactly the runs of the metric whose exec_time lies in the
\* inclusive range (each bound optional), in exec_time order.
C13_ListRunsInRange ==
    [][\A t \in Threads :
          (/\ Returns(t)
           /\ resp'[t].req.op = "RunsGet"
           /\ \A k \in DOMAIN resp'[t].req.args \cap {"start", "end"} :
                 strptime(resp'[t].req.args[k], COB_DATE_FORMAT).ok
           /\ "status" \notin DOMAIN resp'[t].req.args) =>
             LET r == resp'[t]
                 args == r.req.args
                 day(x) == strptime(x.exec_time, COB_DATE_FORMAT)
                 want == {x \in RunsOf(r.req.metric_id) :
                            /\ "start" \in DOMAIN args =>
                                  /\ day(x).ok
                                  /\ day(x).day >= strptime(args.start,
                                                            COB_DATE_FORMAT).day
                            /\ "end" \in DOMAIN args =>
                                  /\ day(x).ok
                                  /\ day(x).day <= strptime(args.end,
                                                            COB_DATE_FORMAT).day}
             IN /\ r.code = 200
                /\ {r.data[i].run_id : i \in DOMAIN r.data}
                       = {x.run_id : x \in want}
                /\ \A i, j \in DOMAIN r.data :
                      i < j => day(r.data[i]).day <= day(r.data[j]).day]_vars

\* C14: getRun, updateRun and deleteRun are keyed by the run_id: for a run
\* stored under the metric each answers 200, deleteRun removes the run, and
\* getRun of a run_id that is not stored answers 404.
C14_RunKeyedByRunId ==
    [][\A t \in Threads :
          (Returns(t) /\ resp'[t].req.op \in {"RunGet", "RunPut", "RunDelete"}) =>
             LET r == resp'[t]
                 stored == {x \in RunsOf(r.req.metric_id) :
                              x.run_id = r.req.run_id}
             IN /\ stored # {} => r.code = 200
                /\ (stored # {} /\ r.req.op = "RunDelete") =>
                      \A x \in metric_run' : x.run_id # r.req.run_id
                /\ (stored = {} /\ r.req.op = "RunGet") => r.code = 404]_vars

\* C15: in every reachable state the runs of all metrics have pairwise
\* distinct run_ids, and a createRun whose body has no run_id stores the run
\* under a generated run_id that no stored run had.
C15_RunIdsDistinct ==
    /\ [](\A r1, r2 \in metric_run : r1.run_id = r2.run_id => r1 = r2)
    /\ [][\A t \in Threads :
             (/\ Returns(t)
              /\ resp'[t].req.op = "RunsPost"
              /\ resp'[t].code = 201
              /\ "run_id" \notin DOMAIN resp'[t].req.json_data) =>
                /\ RunsById(resp'[t].data.run_id) = {}
                /\ resp'[t].data \in metric_run'
                /\ resp'[t].data.metric_id = resp'[t].req.metric_id
                /\ metric_run' = metric_run \cup {resp'[t].data}]_vars

\* A createRun without run_id was answered 201 while another run was stored:
\* two runs with different run_ids, the new one under the id answered.
C15_Witness ==
    \E t \in Threads :
        /\ resp[t].req.op = "RunsPost"
        /\ resp[t].code = 201
        /\ "run_id" \notin DOMAIN resp[t].req.json_data
        /\ resp[t].data \in metric_run
        /\ \E x \in metric_run : x.run_id # resp[t].data.run_id

\* C16: deleteMetric and deleteConfig answer 200 with the representation
\* the entity had just before the delete, a get of a key that is not stored
\* answers 404, and the sequence create, get, delete, get on one metric
\* begins with a 201.
C16_DeleteSnapshot ==
    [][\A t \in Threads : Returns(t) =>
          LET r == resp'[t] IN
          /\ (r.req.op = "MetricDelete" /\ r.code = 200) =>
                \E m \in MetricsById(r.req.metric_id) : r.data = DumpMetric(m)
          /\ (r.req.op = "ConfigDelete" /\ r.code = 200) =>
                r.data \in ConfigsByKey(r.req.metric_id, r.req.config_name)
          /\ (r.req.op = "MetricGet" /\ MetricsById(r.req.metric_id) = {}) =>
                r.code = 404
          /\ (r.req.op = "ConfigGet"
                /\ ConfigsByKey(r.req.metric_id, r.req.config_name) = {}) =>
                r.code = 404
          /\ (r.req.op = "MetricsPost" /\ ValidBody(r.req)) => r.code = 201]_vars

\* The requests whose handler reaches its lookup: every get and delete, and
\* the updates whose patch is not empty.
ReachesLookup(q) ==
    q.op \in {"MetricPut", "ConfigPut"} => q.json_data # NoArgs

\* C17: getMetric and deleteMetric, and updateMetric with a patch that is
\* not empty, on a metric_id without a metric, and getConfig, deleteConfig
\* and updateConfig with a patch that is not empty on a (metric_id,
\* config_name) without a config, return 404 at once with a message that
\* includes the key looked up, and leave the three tables unchanged.
C17_NotFoundNamesKey ==
    [][\A t \in Threads : (Begins(t) /\ ReachesLookup(Started(t))) =>
          LET q == Started(t) IN
          /\ (/\ q.op \in {"MetricGet", "MetricPut", "MetricDelete"}
              /\ MetricsById(q.metric_id) = {}) =>
                /\ inflight'[t] = Idle
                /\ resp'[t].code = 404
                /\ IdStr(q.metric_id) \in resp'[t].data.message
                /\ UNCHANGED store
          /\ (/\ q.op \in {"ConfigGet", "ConfigPut", "ConfigDelete"}
              /\ ConfigsByKey(q.metric_id, q.config_name) = {}) =>
                /\ inflight'[t] = Idle
                /\ resp'[t].code = 404
                /\ {IdStr(q.metric_id), q.config_name}
                       \subseteq resp'[t].data.message
                /\ UNCHANGED store]_vars

\* An updateConfig for a config_name the metric does not have was answered
\* 404 naming the metric_id and the config_name; the metric and its other
\* config are stored.
C17_Witness ==
    \E t \in Threads :
        /\ resp[t].req.op = "ConfigPut"
        /\ resp[t].code = 404
        /\ MetricsById(resp[t].req.metric_id) # {}
        /\ ConfigsOf(resp[t].req.metric_id) # {}
        /\ ConfigsByKey(resp[t].req.metric_id, resp[t].req.config_name) = {}
        /\ resp[t].req.config_name \in resp[t].data.message
        /\ IdStr(resp[t].req.metric_id) \in resp[t].data.message

\* C17 as stated, for every patch: each get, update and delete on a key
\* that is not stored is answered 404.
C17_NotFoundAnyPatch ==
    [][\A t \in Threads : Begins(t) =>
          LET q == Started(t) IN
          /\ (/\ q.op \in {"MetricGet", "MetricPut", "MetricDelete"}
              /\ MetricsById(q.metric_id) = {}) => resp'[t].code = 404
          /\ (/\ q.op \in {"ConfigGet", "ConfigPut", "ConfigDelete"}
              /\ ConfigsByKey(q.metric_id, q.config_name) = {}) =>
                resp'[t].code = 404]_vars

\* C18: every successful answer is wrapped as {status: "success", data},
\* with 201 for the creates and 200 for the reads (single gets and lists),
\* updates and deletes; listing the quant-model metrics without parameters
\* answers 200 "success" in every store state.
C18_SuccessWrapped ==
    [][\A t \in Threads : Returns(t) =>
          LET r == resp'[t] IN
          /\ r.code \in SuccessCodes =>
                /\ r.status = "success"
                /\ (r.code = 201)
                      = (r.req.op \in {"MetricsPost", "ConfigsPost", "RunsPost"})
          /\ (/\ r.req.op = "MetricsGet"
              /\ r.req.ep = ep_mm_dict
              /\ r.req.args = NoArgs) =>
                (r.code = 200 /\ r.status = "success")]_vars

\* C19: a successful updateMetric or updateConfig answers with the updated
\* entity: the dump of the row stored after the update, which a get of the
\* same key returns.
C19_UpdateReturnsEntity ==
    [][\A t \in Threads :
          (Returns(t) /\ resp'[t].code = 200) =>
             LET r == resp'[t] IN
             /\ r.req.op = "MetricPut" =>
                   /\ DOMAIN r.data = MetricDumpFields
                   /\ \E m \in metric' :
                         /\ m.metric_id = r.data.metric_id
                         /\ \A k \in MetricDumpFields \ {"configs", "runs"} :
                               r.data[k] = m[k]
             /\ r.req.op = "ConfigPut" =>
                   /\ DOMAIN r.data = DOMAIN ConfigRow(1, "a", "x")
                   /\ r.data \in metric_config']_vars

\* C20: an enum member's name is accepted in any case, in a body as in a
\* filter, and stored under its canonical name: an updateMetric whose patch
\* is a frequency naming a member in some case succeeds and stores the
\* member, an updateConfig likewise for config_type, and a listMetrics with
\* such a frequency filter answers 200; a value naming no member is answered
\* 400 and nothing is stored.
C20_EnumAnyCase ==
    [][\A t \in Threads : Returns(t) =>
          LET r == resp'[t] IN
          /\ (/\ r.req.op = "MetricPut"
              /\ MetricsById(r.req.metric_id) # {}
              /\ DOMAIN r.req.json_data = {"frequency"}) =>
                IF Upper(r.req.json_data.frequency) \in Frequency
                THEN /\ r.code = 200
                     /\ \E m \in metric' :
                           /\ m.metric_id = r.req.metric_id
                           /\ m.frequency = Upper(r.req.json_data.frequency)
                ELSE r.code = 400 /\ UNCHANGED store
          /\ (/\ r.req.op = "ConfigPut"
              /\ ConfigsByKey(r.req.metric_id, r.req.config_name) # {}
              /\ DOMAIN r.req.json_data = {"config_type"}) =>
                IF Upper(r.req.json_data.config_type) \in ConfigType
                THEN r.code = 200
                ELSE r.code = 400 /\ UNCHANGED store
          /\ (/\ r.req.op = "MetricsGet"
              /\ "frequency" \in DOMAIN r.req.args) =>
                IF Upper(r.req.args.frequency) \in Frequency
                THEN r.code = 200
                ELSE r.code = 400]_vars

\* The letters of two names are the same, whatever their case.
SameName(a, b) ==
    /\ Len(a) = Len(b)
    /\ \A i \in DOMAIN a :
          \/ a[i] = b[i]
          \/ \E k \in DOMAIN LowerCase :
                {a[i], b[i]} = {LowerCase[k], UpperCase[k]}

\* C21: ThresholdType.from_name returns the member n for the name of n in
\* upper case, in lower case and in any mix of cases; for a name that is no
\* member's in any case it raises ValueError, whose message carries the name
\* given (and no list of names); the list operation's 400 for such a
\* threshold_type lists the names of all members.
C21_FromNameAnyCase ==
    /\ call.fn \in {"from_name", "threshold_type"} =>
          /\ \A n \in ThresholdType : SameName(call.arg, n) =>
                (call.result.ok /\ call.result.member = n)
          /\ (\A n \in ThresholdType : ~SameName(call.arg, n)) =>
                (~call.result.ok /\ call.result.args = <<call.arg>>)
    /\ (call.fn = "from_name" /\ ~call.result.ok) =>
          (call.result.error = "ValueError" /\ call.result.listed = {})
    /\ (call.fn = "threshold_type" /\ ~call.result.ok) =>
          (call.result.error = "400" /\ call.result.listed = ThresholdType)

\* from_name was called with the lower-case name of RANGE_LRO and returned
\* that member.
C21_Witness ==
    /\ call.fn = "from_name"
    /\ call.arg = lower(ThresholdTypeMembers[12])
    /\ call.arg # ThresholdTypeMembers[12]
    /\ call.result.ok
    /\ call.result.member = ThresholdTypeMembers[12]

\* C21 as stated: the error from_name raises for a name of no member lists
\* the names of all members.
C21_FromNameErrorListsNames ==
    (call.fn = "from_name" /\ ~call.result.ok) =>
        call.result.listed = ThresholdType

\* C22: is_range is true exactly for RANGE, RANGE_LO, RANGE_RO and
\* RANGE_LRO, is_set exactly for IN and NOT_IN, and for no member both.
C22_RangeAndSet ==
    /\ call.fn = "is_range" =>
          call.result = (call.arg \in {ThresholdTypeMembers[i] : i \in 9..12})
    /\ call.fn = "is_set" =>
          call.result = (call.arg \in {ThresholdTypeMembers[7],
                                        ThresholdTypeMembers[8]})
    /\ \A n \in ThresholdType : ~(is_range(n) /\ is_set(n))

\* is_range was called on RANGE and answered True.
C22_Witness ==
    /\ call.fn = "is_range"
    /\ call.arg = ThresholdTypeMembers[9]
    /\ Len(call.arg) = 5
    /\ call.result

\* C23: listConfigs returns exactly the configs of the metric, by
\* config_name ascending when sort is absent or "config_name", descending
\* only for "-config_name".
C23_ListConfigsOrder ==
    [][\A t \in Threads :
          (Returns(t) /\ resp'[t].req.op = "ConfigsGet") =>
             LET r == resp'[t]
                 desc == /\ "sort" \in DOMAIN r.req.args
                         /\ r.req.args.sort = <<"-", "config_name">>
             IN /\ r.code = 200
                /\ {r.data[i] : i \in DOMAIN r.data} = ConfigsOf(r.req.metric_id)
                /\ Len(r.data) = Cardinality(ConfigsOf(r.req.metric_id))
                /\ \A i, j \in DOMAIN r.data :
                      i < j => IF desc
                               THEN NameRank(r.data[i].config_name)
                                       > NameRank(r.data[j].config_name)
                               ELSE NameRank(r.data[i].config_name)
                                       < NameRank(r.data[j].config_name)]_vars

\* C24: listRuns with a start or an end that is no YYYY-MM-DD date is
\* answered 400 with a message that names the field ("start" or "end"),
\* without run data, and the three tables are unchanged.
C24_ListRunsBadDate ==
    [][\A t \in Threads :
          (Returns(t) /\ resp'[t].req.op = "RunsGet") =>
             LET r == resp'[t]
                 bad == {k \in DOMAIN r.req.args \cap {"start", "end"} :
                           ~strptime(r.req.args[k], COB_DATE_FORMAT).ok}
             IN bad # {} =>
                   /\ r.code = 400
                   /\ r.data.message \cap bad # {}
                   /\ UNCHANGED store]_vars

\* C25: createRun never modifies a stored run: when the body carries the
\* run_id of a stored run (of the same or another metric) the request fails
\* and that run, its metric_id included, is as it was.
C25_CreateRunKeepsStoredRun ==
    [][\A t \in Threads :
          (/\ Returns(t)
           /\ resp'[t].req.op = "RunsPost"
           /\ "run_id" \in DOMAIN resp'[t].req.json_data
           /\ RunsById(resp'[t].req.json_data.run_id) # {}) =>
             /\ resp'[t].code \notin SuccessCodes
             /\ \A x \in RunsById(resp'[t].req.json_data.run_id) :
                   x \in metric_run']_vars

\* C26: a metric created through a variant's create is returned by that
\* variant's list without filters, until it is deleted: a create with a
\* valid body is answered 201 and stores the metric as one of the variant,
\* and the variant's list without parameters returns every stored metric of
\* the variant.
C26_CreatedMetricListed ==
    [][\A t \in Threads : Returns(t) =>
          LET r == resp'[t] IN
          /\ (r.req.op = "MetricsPost" /\ ValidBody(r.req)) =>
                /\ r.code = 201
                /\ \E m \in metric' : /\ m.metric_id = r.data.metric_id
                                       /\ m.ext = SchemaIdentity(r.req.ep)
          /\ (r.req.op = "MetricsGet" /\ r.req.args = NoArgs) =>
                /\ r.code = 200
                /\ {m.metric_id : m \in {x \in metric :
                                            x.ext = SchemaIdentity(r.req.ep)}}
                       \subseteq {r.data[i].metric_id : i \in DOMAIN r.data}]_vars

\* C27: an update never changes the key of what it updates: after a
\* successful updateMetric or updateConfig, a patch with metric_id or
\* config_name included, the metric_ids of the metrics and the (metric_id,
\* config_name) keys of the configs are the same as before.
C27_UpdateKeepsKeys ==
    [][\A t \in Threads :
          (Returns(t) /\ resp'[t].req.op \in {"MetricPut", "ConfigPut"}) =>
             /\ {m.metric_id : m \in metric'} = {m.metric_id : m \in metric}
             /\ {<<c.metric_id, c.config_name>> : c \in metric_config'}
                   = {<<c.metric_id, c.config_name>> : c \in metric_config}]_vars

\* C29: a create or an update of a metric, a config or a run with an empty
\* body is answered 400 "No input data provided", and nothing is written.
C29_EmptyBodyRefused ==
    [][\A t \in Threads :
          (/\ Returns(t)
           /\ resp'[t].req.op \in {"MetricsPost", "ConfigsPost", "RunsPost",
                                    "MetricPut", "ConfigPut"}
           /\ (IF resp'[t].req.op = "MetricsPost"
               THEN resp'[t].req.body ELSE resp'[t].req.json_data) = NoArgs) =>
             /\ resp'[t].code = 400
             /\ "No input data provided" \in resp'[t].data.message
             /\ UNCHANGED store]_vars

\* C30: a request scoped to metric a (deleteMetric, and the create, update
\* and delete of a config or a run under a) leaves every other metric, its
\* configs and its runs as they were.
C30_OtherMetricsUntouched ==
    [][\A t \in Threads :
          (Returns(t) /\ resp'[t].req.op \in
              {"MetricDelete", "ConfigsPost", "ConfigPut", "ConfigDelete",
               "RunsPost", "RunPut", "RunDelete"}) =>
             \A b \in MetricIds \ {resp'[t].req.metric_id} :
                /\ {m \in metric' : m.metric_id = b} = MetricsById(b)
                /\ {c \in metric_config' : c.metric_id = b} = ConfigsOf(b)
                /\ {x \in metric_run' : x.metric_id = b} = RunsOf(b)]_vars

\* C28: the single-metric operations of a variant's endpoint act only on
\* metrics of that variant: a get, an update or a delete through the
\* endpoint of one variant with the metric_id of a metric of the other is
\* answered 404 at once and leaves the tables unchanged.
C28_EndpointOwnsVariant ==
    [][\A t \in Threads :
          (/\ Begins(t)
           /\ Started(t).op \in {"MetricGet", "MetricPut", "MetricDelete"}
           /\ ReachesLookup(Started(t))
           /\ \E m \in MetricsById(Started(t).metric_id) :
                 m.ext # SchemaIdentity(Started(t).ep)) =>
             /\ inflight'[t] = Idle
             /\ resp'[t].code = 404
             /\ UNCHANGED store]_vars

====
